---- MODULE Spec2Model ----
(***************************************************************************)
(* Model of the `kite login` flow, cmd/kite/login/cmd.go.                  *)
(*                                                                         *)
(* loginHandler is a straight-line sequence of fallible steps over one     *)
(* in-memory configuration record (cfg) and one external store (the config *)
(* file).  Strings are sequences of one-character strings, so that         *)
(* ReadString, TrimSuffix and fmt formatting are computed rather than      *)
(* assumed.  The collaborators that live outside cmd.go (config.Load,      *)
(* config.Save, client.Connect, GetCurrentUser, teams.SelectTeam) are      *)
(* modelled by their outcomes, chosen nondeterministically.                *)
(***************************************************************************)
EXTENDS Integers, Sequences, FiniteSets, TLC

VARIABLES
    storeOK,    \* the config file exists and parses
    store,      \* the record the config file holds (meaningful when storeOK)
    loginArgs,  \* the package-level flag values (--api-key, --access-token)
    cfg,        \* loginHandler's cfg
    user,       \* loginHandler's user
    err,        \* the error loginHandler returned (NoErr while running / on nil)
    pc,         \* position of loginHandler
    log,        \* the calls this run has made to its collaborators, in order
    prev,       \* how the previous run on this store ended ("none" for the first)
    runs,       \* number of runs started
    first       \* a finished run kept for comparison with the current one:
                \* its flags, its calls and how it ended (done = FALSE: none kept)

vars == <<storeOK, store, loginArgs, cfg, user, err, pc, log, prev, runs, first>>

(***************************************************************************)
(* Bounds                                                                  *)
(***************************************************************************)
\* number of Read calls on os.Stdin one ReadString may need
MaxReads == 2
\* number of consecutive invocations of `kite login` on the same store
MaxRuns == 2

(***************************************************************************)
(* Strings                                                                 *)
(***************************************************************************)
NL == "\n"
Empty == <<>>

S_old == <<"o", "l", "d">>
S_new == <<"n", "e", "w">>
S_tok == <<"t", "o", "k">>
S_ovt == <<"o", "v", "t">>
S_abc123 == <<"a", "b", "c", "1", "2", "3">>
S_ghtoken == <<"g", "h", "t", "o", "k", "e", "n">>
S_401 == <<"4", "0", "1">>
S_Unauthorized == <<"U", "n", "a", "u", "t", "h", "o", "r", "i", "z", "e", "d">>
S_loginFailedNL == <<"l", "o", "g", "i", "n", " ", "f", "a", "i", "l", "e", "d", NL>>
S_SuccessPrefix ==
    <<"S", "u", "c", "c", "e", "s", "s", "f", "u", "l", "l", "y", " ",
      "l", "o", "g", "g", "e", "d", " ", "i", "n", " ", "a", "s", " ",
      "u", "s", "e", "r", ":", " ">>
S_JaneDoe == <<"J", "a", "n", "e", " ", "D", "o", "e">>

\* s[i..Len(s)] starts with sub
StartsAt(s, sub, i) ==
    /\ i + Len(sub) - 1 <= Len(s)
    /\ \A k \in 1..Len(sub) : s[i + k - 1] = sub[k]

\* strings.Contains
Contains(s, sub) == \E i \in 1..(Len(s) + 1) : StartsAt(s, sub, i)

\* strings.HasSuffix
HasSuffix(s, suffix) ==
    /\ Len(suffix) <= Len(s)
    /\ StartsAt(s, suffix, Len(s) - Len(suffix) + 1)

\* strings.TrimSuffix: s without the trailing suffix, once; s itself otherwise
TrimSuffix(s, suffix) ==
    IF HasSuffix(s, suffix) THEN SubSeq(s, 1, Len(s) - Len(suffix)) ELSE s

\* index of the first delim in s, 0 when there is none
IndexByte(s, delim) ==
    IF \E i \in 1..Len(s) : s[i] = delim
    THEN CHOOSE i \in 1..Len(s) : s[i] = delim /\ \A j \in 1..(i - 1) : s[j] # delim
    ELSE 0

Digit(d) == <<"0", "1", "2", "3", "4", "5", "6", "7", "8", "9">>[d + 1]

\* fmt's %v of a non-negative int
RECURSIVE Itoa(_)
Itoa(n) == IF n < 10 THEN <<Digit(n)>> ELSE Itoa(n \div 10) \o <<Digit(n % 10)>>

(***************************************************************************)
(* Errors                                                                  *)
(***************************************************************************)
Error(type, code, msg) == [type |-> type, StatusCode |-> code, msg |-> msg]
NoErr == Error("nil", 0, Empty)
EOF == Error("io.EOF", 0, <<"E", "O", "F">>)
LoadErr == Error("config.Load", 0, <<"l", "o", "a", "d">>)
SaveErr == Error("config.Save", 0, <<"s", "a", "v", "e">>)
ConnectErr == Error("client.Connect", 0, <<"c", "o", "n", "n">>)
NetworkErr == Error("net", 0, <<"n", "e", "t">>)
SelectErr == Error("teams.SelectTeam", 0, <<"s", "e", "l">>)
\* pagerduty.APIError: the remote service answered with a non-2xx status
APIError(code) == Error("pagerduty.APIError", code, <<"H", "T", "T", "P", " ">> \o Itoa(code))

(***************************************************************************)
(* The configuration record                                                *)
(***************************************************************************)
Config(k, t, id, name) == [ApiKey |-> k, AccessToken |-> t, TeamID |-> id, Team |-> name]
\* new(config.Config)
ZeroConfig == Config(Empty, Empty, Empty, Empty)

T1 == <<"T", "1">>
T2 == <<"T", "2">>
Ops == <<"O", "p", "s">>
Dev == <<"D", "e", "v">>

\* what a config file found on disk may hold
StoredConfigs ==
    { Config(k, t, id, name) :
        k \in {Empty, S_old}, t \in {Empty, S_tok},
        id \in {Empty, T1}, name \in {Empty, Ops} }

\* the flag values cobra may have parsed
LoginArgs ==
    { [apiKey |-> k, accessToken |-> t] : k \in {Empty, S_new}, t \in {Empty, S_ovt} }

(***************************************************************************)
(* Standard input                                                          *)
(***************************************************************************)
\* what one Read on os.Stdin may hand back
Chunks ==
    { <<NL>>, <<"a">>, S_abc123 \o <<NL>>, S_ghtoken \o <<NL>>, <<"a", NL, "b">> }

\* the successive Reads a bufio.Reader makes; after the last one, EOF.  It
\* reads on only while it has not found the delimiter
ReadSeqs ==
    { reads \in UNION { [1..n -> Chunks] : n \in 0..MaxReads } :
        \A i \in 1..(Len(reads) - 1) : IndexByte(reads[i], NL) = 0 }

\* bufio.Reader.ReadString: everything up to and including the first delim;
\* if the stream ends first, what was read so far and the error
RECURSIVE ReadString(_, _, _)
ReadString(reads, delim, acc) ==
    IF reads = <<>>
    THEN [data |-> acc, err |-> EOF]
    ELSE LET c == Head(reads)
             i == IndexByte(c, delim)
         IN  IF i > 0
             THEN [data |-> acc \o SubSeq(c, 1, i), err |-> NoErr]
             ELSE ReadString(Tail(reads), delim, acc \o c)

(***************************************************************************)
(* Events of the log                                                       *)
(***************************************************************************)
Event(op, e, rec, data) == [op |-> op, ok |-> (e = NoErr), err |-> e, rec |-> rec, data |-> data]

Fail(e) == /\ pc' = "FAILED"
           /\ err' = e

(***************************************************************************)
(* Collaborators outside cmd.go, by their outcomes                         *)
(***************************************************************************)
\* config.Load: the stored record, or an error (and a value that is not to be
\* relied on) when the file is missing, unreadable or malformed
LoadResults ==
    IF storeOK
    THEN { [cfg |-> store, err |-> NoErr] }
    ELSE { [cfg |-> c, err |-> LoadErr] : c \in {ZeroConfig, Config(S_old, Empty, T1, Empty)} }

\* config.Save: either the whole record is written, or nothing is
SaveResults == {NoErr, SaveErr}

Save(rec, e) ==
    IF e = NoErr
    THEN /\ store' = rec
         /\ storeOK' = TRUE
    ELSE UNCHANGED <<store, storeOK>>

\* client.NewClient().Connect()
ConnectResults == {NoErr, ConnectErr}

\* the status codes a failed request may carry
StatusCodes == {401, 429, 500}

\* pdClient.GetCurrentUser: the user, an APIError carrying the HTTP status,
\* or an error of the transport
GetCurrentUserResults ==
    { [Name |-> S_JaneDoe, err |-> NoErr] }
        \cup { [Name |-> Empty, err |-> APIError(code)] : code \in StatusCodes }
        \cup { [Name |-> Empty, err |-> NetworkErr] }

\* teams.SelectTeam: a team of the user, or an error
SelectTeamResults ==
    { [teamID |-> T1, name |-> Ops, err |-> NoErr],
      [teamID |-> T2, name |-> Dev, err |-> NoErr],
      [teamID |-> Empty, name |-> Empty, err |-> SelectErr] }

(***************************************************************************)
(* The functions of cmd.go                                                 *)
(***************************************************************************)
\* generateNewKey: cfg.ApiKey, err = reader.ReadString('\n')
generateNewKey(c, reads) ==
    LET r == ReadString(reads, NL, Empty)
    IN  [cfg |-> [c EXCEPT !.ApiKey = r.data], err |-> r.err]

\* generateNewAccessToken without the TrimSuffix
generateNewAccessToken_NoTrim(c, reads) ==
    LET r == ReadString(reads, NL, Empty)
    IN  [cfg |-> [c EXCEPT !.AccessToken = r.data], err |-> r.err]

\* generateNewAccessToken: as generateNewKey, then TrimSuffix(..., "\n")
generateNewAccessToken(c, reads) ==
    LET r == ReadString(reads, NL, Empty)
    IN  [cfg |-> [c EXCEPT !.AccessToken = TrimSuffix(r.data, <<NL>>)], err |-> r.err]

\* errors.As(err, &apiError)
IsAPIError(e) == e.type = "pagerduty.APIError"

\* Login without the errors.As branch: every error is returned as it came
Login_Passthrough(apiKey, res) ==
    IF res.err # NoErr
    THEN [user |-> Empty, err |-> res.err]
    ELSE [user |-> res.Name, err |-> NoErr]

\* Login: res is what client.GetCurrentUser returned
Login(apiKey, res) ==
    IF res.err # NoErr
    THEN IF IsAPIError(res.err)
         THEN [user |-> Empty,
               err |-> Error("fmt.Errorf", 0,
                             S_loginFailedNL \o Itoa(res.err.StatusCode)
                                 \o <<" ">> \o S_Unauthorized)]
         ELSE [user |-> Empty, err |-> res.err]
    ELSE [user |-> res.Name, err |-> NoErr]

\* successMessage: what fmt.Printf writes
successMessage(u) == S_SuccessPrefix \o u \o <<NL>>

(***************************************************************************)
(* loginHandler, step by step                                              *)
(***************************************************************************)
Init ==
    /\ storeOK \in BOOLEAN
    /\ store \in (IF storeOK THEN StoredConfigs ELSE {ZeroConfig})
    /\ loginArgs \in LoginArgs
    /\ cfg = ZeroConfig
    /\ user = Empty
    /\ err = NoErr
    /\ pc = "LOADING"
    /\ log = <<>>
    /\ prev = "none"
    /\ runs = 1
    /\ first = [done |-> FALSE,
                loginArgs |-> [apiKey |-> Empty, accessToken |-> Empty],
                log |-> <<>>, pc |-> "LOADING", err |-> NoErr,
                cfg |-> ZeroConfig, user |-> Empty,
                endStoreOK |-> FALSE, endStore |-> ZeroConfig]

\* LoadConfig returning the load error instead of starting afresh
LoadConfig_ReturnsErr ==
    /\ pc = "LOADING"
    /\ \E r \in LoadResults :
        /\ cfg' = r.cfg
        /\ log' = Append(log, Event("Load", r.err, cfg', Empty))
        /\ IF r.err # NoErr
           THEN Fail(r.err)
           ELSE /\ pc' = "OVERRIDING"
                /\ err' = err
    /\ UNCHANGED <<storeOK, store, loginArgs, user, prev, runs, first>>

\* lines 70-79
LoadConfig ==
    /\ pc = "LOADING"
    /\ \E r \in LoadResults :
        /\ cfg' = (IF r.err # NoErr THEN ZeroConfig ELSE r.cfg)
        /\ log' = Append(log, Event("Load", r.err, cfg', Empty))
    /\ pc' = "OVERRIDING"
    /\ UNCHANGED <<storeOK, store, loginArgs, user, err, prev, runs, first>>

\* ApplyKeyOverride without the loginArgs.apiKey != "" test: it saves every time
ApplyKeyOverride_AlwaysSaves ==
    /\ pc = "OVERRIDING"
    /\ \E e \in SaveResults :
        /\ cfg' = (IF loginArgs.apiKey # Empty
                   THEN [cfg EXCEPT !.ApiKey = loginArgs.apiKey]
                   ELSE cfg)
        /\ Save(cfg', e)
        /\ log' = Append(log, Event("Save", e, cfg', Empty))
        /\ IF e # NoErr
           THEN Fail(e)
           ELSE /\ pc' = "ACQUIRING_KEY"
                /\ err' = err
    /\ UNCHANGED <<loginArgs, user, prev, runs, first>>

\* ApplyKeyOverride without the Save: the override stays in memory
ApplyKeyOverride_NoSave ==
    /\ pc = "OVERRIDING"
    /\ IF loginArgs.apiKey # Empty
       THEN cfg' = [cfg EXCEPT !.ApiKey = loginArgs.apiKey]
       ELSE cfg' = cfg
    /\ pc' = "ACQUIRING_KEY"
    /\ UNCHANGED <<store, storeOK, log, err, loginArgs, user, prev, runs, first>>

\* lines 81-92
ApplyKeyOverride ==
    /\ pc = "OVERRIDING"
    /\ IF loginArgs.apiKey # Empty
       THEN \E e \in SaveResults :
               /\ cfg' = [cfg EXCEPT !.ApiKey = loginArgs.apiKey]
               /\ Save(cfg', e)
               /\ log' = Append(log, Event("Save", e, cfg', Empty))
               /\ IF e # NoErr
                  THEN Fail(e)
                  ELSE /\ pc' = "ACQUIRING_KEY"
                       /\ err' = err
       ELSE /\ pc' = "ACQUIRING_KEY"
            /\ UNCHANGED <<cfg, store, storeOK, log, err>>
    /\ UNCHANGED <<loginArgs, user, prev, runs, first>>

\* AcquireKey that saves the prompted key at once
AcquireKey_Saves ==
    /\ pc = "ACQUIRING_KEY"
    /\ IF Len(cfg.ApiKey) = 0
       THEN \E reads \in ReadSeqs, e \in SaveResults :
               LET r == generateNewKey(cfg, reads)
                   prompt == Event("PromptKey", r.err, r.cfg,
                                   ReadString(reads, NL, Empty).data)
               IN  /\ cfg' = r.cfg
                   /\ IF r.err # NoErr
                      THEN /\ log' = Append(log, prompt)
                           /\ Fail(r.err)
                           /\ UNCHANGED <<store, storeOK>>
                      ELSE /\ Save(r.cfg, e)
                           /\ log' = log \o <<prompt, Event("Save", e, r.cfg, Empty)>>
                           /\ IF e # NoErr
                              THEN Fail(e)
                              ELSE /\ pc' = "ACQUIRING_TOKEN"
                                   /\ err' = err
       ELSE /\ pc' = "ACQUIRING_TOKEN"
            /\ UNCHANGED <<cfg, store, storeOK, log, err>>
    /\ UNCHANGED <<loginArgs, user, prev, runs, first>>

\* lines 94-103
AcquireKey ==
    /\ pc = "ACQUIRING_KEY"
    /\ IF Len(cfg.ApiKey) = 0
       THEN \E reads \in ReadSeqs :
               LET r == generateNewKey(cfg, reads)
               IN  /\ cfg' = r.cfg
                   /\ log' = Append(log, Event("PromptKey", r.err, r.cfg,
                                               ReadString(reads, NL, Empty).data))
                   /\ IF r.err # NoErr
                      THEN Fail(r.err)
                      ELSE /\ pc' = "ACQUIRING_TOKEN"
                           /\ err' = err
       ELSE /\ pc' = "ACQUIRING_TOKEN"
            /\ UNCHANGED <<cfg, log, err>>
    /\ UNCHANGED <<storeOK, store, loginArgs, user, prev, runs, first>>

\* AcquireToken with the --access-token flag wired in like --api-key
AcquireToken_WithOverride ==
    /\ pc = "ACQUIRING_TOKEN"
    /\ IF loginArgs.accessToken # Empty
       THEN \E e \in SaveResults :
               /\ cfg' = [cfg EXCEPT !.AccessToken = loginArgs.accessToken]
               /\ Save(cfg', e)
               /\ log' = Append(log, Event("Save", e, cfg', Empty))
               /\ IF e # NoErr
                  THEN Fail(e)
                  ELSE /\ pc' = "CONNECTING"
                       /\ err' = err
       ELSE IF Len(cfg.AccessToken) = 0
       THEN \E reads \in ReadSeqs, e \in SaveResults :
               LET r == generateNewAccessToken(cfg, reads)
                   prompt == Event("PromptToken", r.err, r.cfg,
                                   ReadString(reads, NL, Empty).data)
               IN  /\ cfg' = r.cfg
                   /\ IF r.err # NoErr
                      THEN /\ log' = Append(log, prompt)
                           /\ Fail(r.err)
                           /\ UNCHANGED <<store, storeOK>>
                      ELSE /\ Save(r.cfg, e)
                           /\ log' = log \o <<prompt, Event("Save", e, r.cfg, Empty)>>
                           /\ IF e # NoErr
                              THEN Fail(e)
                              ELSE /\ pc' = "CONNECTING"
                                   /\ err' = err
       ELSE /\ pc' = "CONNECTING"
            /\ UNCHANGED <<cfg, store, storeOK, log, err>>
    /\ UNCHANGED <<loginArgs, user, prev, runs, first>>

\* lines 105-121
AcquireToken ==
    /\ pc = "ACQUIRING_TOKEN"
    /\ IF Len(cfg.AccessToken) = 0
       THEN \E reads \in ReadSeqs, e \in SaveResults :
               LET r == generateNewAccessToken(cfg, reads)
                   prompt == Event("PromptToken", r.err, r.cfg,
                                   ReadString(reads, NL, Empty).data)
               IN  /\ cfg' = r.cfg
                   /\ IF r.err # NoErr
                      THEN /\ log' = Append(log, prompt)
                           /\ Fail(r.err)
                           /\ UNCHANGED <<store, storeOK>>
                      ELSE /\ Save(r.cfg, e)
                           /\ log' = log \o <<prompt, Event("Save", e, r.cfg, Empty)>>
                           /\ IF e # NoErr
                              THEN Fail(e)
                              ELSE /\ pc' = "CONNECTING"
                                   /\ err' = err
       ELSE /\ pc' = "CONNECTING"
            /\ UNCHANGED <<cfg, store, storeOK, log, err>>
    /\ UNCHANGED <<loginArgs, user, prev, runs, first>>

\* Connect tried again after a failure
Connect_Retry ==
    /\ pc = "CONNECTING"
    /\ \E e \in ConnectResults :
        /\ log' = Append(log, Event("Connect", e, cfg, Empty))
        /\ pc' = (IF e # NoErr THEN "CONNECTING" ELSE "AUTHENTICATING")
        /\ err' = err
    /\ UNCHANGED <<storeOK, store, loginArgs, cfg, user, prev, runs, first>>

\* lines 123-128
Connect ==
    /\ pc = "CONNECTING"
    /\ \E e \in ConnectResults :
        /\ log' = Append(log, Event("Connect", e, cfg, Empty))
        /\ IF e # NoErr
           THEN Fail(e)
           ELSE /\ pc' = "AUTHENTICATING"
                /\ err' = err
    /\ UNCHANGED <<storeOK, store, loginArgs, cfg, user, prev, runs, first>>

\* Authenticate that does not return on Login's error
Authenticate_IgnoreErr ==
    /\ pc = "AUTHENTICATING"
    /\ \E res \in GetCurrentUserResults :
        LET r == Login(cfg.ApiKey, res)
            call == Event("GetCurrentUser", res.err, cfg, res.Name)
        IN  /\ user' = r.user
            /\ IF r.err # NoErr
               THEN log' = Append(log, call)
               ELSE log' = log \o <<call, Event("Print", NoErr, cfg, successMessage(r.user))>>
            /\ pc' = "RESOLVING_TEAM"
            /\ err' = err
    /\ UNCHANGED <<storeOK, store, loginArgs, cfg, prev, runs, first>>

\* Authenticate that prints the success line before looking at Login's error
Authenticate_PrintFirst ==
    /\ pc = "AUTHENTICATING"
    /\ \E res \in GetCurrentUserResults :
        LET r == Login(cfg.ApiKey, res)
            call == Event("GetCurrentUser", res.err, cfg, res.Name)
        IN  /\ user' = r.user
            /\ log' = log \o <<call, Event("Print", NoErr, cfg, successMessage(r.user))>>
            /\ IF r.err # NoErr
               THEN Fail(r.err)
               ELSE /\ pc' = "RESOLVING_TEAM"
                    /\ err' = err
    /\ UNCHANGED <<storeOK, store, loginArgs, cfg, prev, runs, first>>

\* lines 130-138
Authenticate ==
    /\ pc = "AUTHENTICATING"
    /\ \E res \in GetCurrentUserResults :
        LET r == Login(cfg.ApiKey, res)
            call == Event("GetCurrentUser", res.err, cfg, res.Name)
        IN  /\ user' = r.user
            /\ IF r.err # NoErr
               THEN /\ log' = Append(log, call)
                    /\ Fail(r.err)
               ELSE /\ log' = log \o <<call, Event("Print", NoErr, cfg, successMessage(r.user))>>
                    /\ pc' = "RESOLVING_TEAM"
                    /\ err' = err
    /\ UNCHANGED <<storeOK, store, loginArgs, cfg, prev, runs, first>>

\* ResolveTeam forgetting cfg.Team = name
ResolveTeam_IdOnly ==
    /\ pc = "RESOLVING_TEAM"
    /\ IF cfg.TeamID = Empty
       THEN \E r \in SelectTeamResults :
               IF r.err # NoErr
               THEN /\ log' = Append(log, Event("SelectTeam", r.err, cfg, Empty))
                    /\ Fail(r.err)
                    /\ cfg' = cfg
               ELSE /\ cfg' = [cfg EXCEPT !.TeamID = r.teamID]
                    /\ log' = Append(log, Event("SelectTeam", NoErr, cfg', r.teamID))
                    /\ pc' = "PERSISTING"
                    /\ err' = err
       ELSE /\ pc' = "PERSISTING"
            /\ UNCHANGED <<cfg, log, err>>
    /\ UNCHANGED <<storeOK, store, loginArgs, user, prev, runs, first>>

\* ResolveTeam without the cfg.TeamID == "" test: the picker runs every time
ResolveTeam_Always ==
    /\ pc = "RESOLVING_TEAM"
    /\ \E r \in SelectTeamResults :
          IF r.err # NoErr
          THEN /\ log' = Append(log, Event("SelectTeam", r.err, cfg, Empty))
               /\ Fail(r.err)
               /\ cfg' = cfg
          ELSE /\ cfg' = [cfg EXCEPT !.TeamID = r.teamID, !.Team = r.name]
               /\ log' = Append(log, Event("SelectTeam", NoErr, cfg', r.teamID))
               /\ pc' = "PERSISTING"
               /\ err' = err
    /\ UNCHANGED <<storeOK, store, loginArgs, user, prev, runs, first>>

\* lines 140-150
ResolveTeam ==
    /\ pc = "RESOLVING_TEAM"
    /\ IF cfg.TeamID = Empty
       THEN \E r \in SelectTeamResults :
               IF r.err # NoErr
               THEN /\ log' = Append(log, Event("SelectTeam", r.err, cfg, Empty))
                    /\ Fail(r.err)
                    /\ cfg' = cfg
               ELSE /\ cfg' = [cfg EXCEPT !.TeamID = r.teamID, !.Team = r.name]
                    /\ log' = Append(log, Event("SelectTeam", NoErr, cfg', r.teamID))
                    /\ pc' = "PERSISTING"
                    /\ err' = err
       ELSE /\ pc' = "PERSISTING"
            /\ UNCHANGED <<cfg, log, err>>
    /\ UNCHANGED <<storeOK, store, loginArgs, user, prev, runs, first>>

\* FinalSave made conditional: it saves only when a team was just selected
FinalSave_OnlyIfSelected ==
    /\ pc = "PERSISTING"
    /\ IF Len(log) >= 1 /\ log[Len(log)].op = "SelectTeam"
       THEN \E e \in SaveResults :
               /\ Save(cfg, e)
               /\ log' = Append(log, Event("Save", e, cfg, Empty))
               /\ IF e # NoErr
                  THEN Fail(e)
                  ELSE /\ pc' = "DONE"
                       /\ err' = NoErr
       ELSE /\ pc' = "DONE"
            /\ err' = NoErr
            /\ UNCHANGED <<store, storeOK, log>>
    /\ UNCHANGED <<loginArgs, cfg, user, prev, runs, first>>

\* FinalSave that undoes the run's writes when the save fails
FinalSave_Rollback ==
    /\ pc = "PERSISTING"
    /\ \E e \in SaveResults :
        /\ log' = Append(log, Event("Save", e, cfg, Empty))
        /\ IF e # NoErr
           THEN /\ Fail(e)
                /\ store' = log[1].rec
                /\ storeOK' = storeOK
           ELSE /\ Save(cfg, e)
                /\ pc' = "DONE"
                /\ err' = NoErr
    /\ UNCHANGED <<loginArgs, cfg, user, prev, runs, first>>

\* lines 152-159
FinalSave ==
    /\ pc = "PERSISTING"
    /\ \E e \in SaveResults :
        /\ Save(cfg, e)
        /\ log' = Append(log, Event("Save", e, cfg, Empty))
        /\ IF e # NoErr
           THEN Fail(e)
           ELSE /\ pc' = "DONE"
                /\ err' = NoErr
    /\ UNCHANGED <<loginArgs, cfg, user, prev, runs, first>>

\* the user invokes `kite login` again: a new process on the store as it is
Rerun ==
    /\ pc \in {"DONE", "FAILED"}
    /\ runs < MaxRuns
    /\ runs' = runs + 1
    /\ prev' = pc
    /\ loginArgs' \in LoginArgs
    /\ cfg' = ZeroConfig
    /\ user' = Empty
    /\ err' = NoErr
    /\ log' = <<>>
    /\ pc' = "LOADING"
    /\ UNCHANGED <<storeOK, store, first>>

Next ==
    \/ LoadConfig
    \/ ApplyKeyOverride
    \/ AcquireKey
    \/ AcquireToken
    \/ Connect
    \/ Authenticate
    \/ ResolveTeam
    \/ FinalSave
    \/ Rerun

Spec == Init /\ [][Next]_vars

(***************************************************************************)
(* Two runs side by side: a finished run is kept, the store is put back to *)
(* what that run loaded, and `kite login` runs again with the same         *)
(* --api-key and another --access-token.  The second run is given, call by *)
(* call, what the first was given.                                         *)
(***************************************************************************)
\* what the outside gave a call: its error and the data it returned
Answer(e) == <<e.err, e.data>>
Shorter == IF Len(log) <= Len(first.log) THEN Len(log) ELSE Len(first.log)
\* wherever the two runs made the same call, they were given the same answer
SameAnswers ==
    \A i \in 1..Shorter :
        log[i].op = first.log[i].op => Answer(log[i]) = Answer(first.log[i])

RunWithOtherAccessToken ==
    /\ pc \in {"DONE", "FAILED"}
    /\ ~first.done
    /\ first' = [done |-> TRUE, loginArgs |-> loginArgs, log |-> log,
                 pc |-> pc, err |-> err, cfg |-> cfg, user |-> user,
                 endStoreOK |-> storeOK, endStore |-> store]
    /\ storeOK' = log[1].ok
    /\ store' = (IF log[1].ok THEN log[1].rec ELSE ZeroConfig)
    /\ loginArgs' \in { a \in LoginArgs : /\ a.apiKey = loginArgs.apiKey
                                         /\ a.accessToken # loginArgs.accessToken }
    /\ cfg' = ZeroConfig
    /\ user' = Empty
    /\ err' = NoErr
    /\ log' = <<>>
    /\ pc' = "LOADING"
    /\ UNCHANGED <<prev, runs>>

\* a step of loginHandler; in the second run, one that is given the same answers
TwinStep(step) ==
    /\ step
    /\ first.done => SameAnswers'

NextTwin ==
    \/ TwinStep(LoadConfig)
    \/ TwinStep(ApplyKeyOverride)
    \/ TwinStep(AcquireKey)
    \/ TwinStep(AcquireToken)
    \/ TwinStep(Connect)
    \/ TwinStep(Authenticate)
    \/ TwinStep(ResolveTeam)
    \/ TwinStep(FinalSave)
    \/ RunWithOtherAccessToken

SpecTwin == Init /\ [][NextTwin]_vars

(***************************************************************************)
(* Reading the log                                                         *)
(***************************************************************************)
Calls(op) == { i \in DOMAIN log : log[i].op = op }
IsSave(e) == e.op = "Save"
\* the records handed to config.Save in this run, in order
SavedRecords == LET saves == SelectSeq(log, IsSave)
                IN  [i \in DOMAIN saves |-> saves[i].rec]
Loaded == log[1].rec
Started == Len(log) >= 1
Paired(rec) == (rec.TeamID = Empty) <=> (rec.Team = Empty)

(***************************************************************************)
(* C1: a run that ends DONE leaves a store whose apiKey, accessToken and   *)
(* teamID are all non-empty, and GetCurrentUser succeeded in that run.     *)
(***************************************************************************)
C1_DoneMeansEverythingPersisted ==
    pc = "DONE" =>
        /\ storeOK
        /\ store.ApiKey # Empty
        /\ store.AccessToken # Empty
        /\ store.TeamID # Empty
        /\ \E i \in Calls("GetCurrentUser") : log[i].ok

(***************************************************************************)
(* C2: when control reaches the Connect step, cfg.ApiKey and               *)
(* cfg.AccessToken are both non-empty.                                     *)
(***************************************************************************)
C2_AcquirerPostcondition ==
    pc = "CONNECTING" => (cfg.ApiKey # Empty /\ cfg.AccessToken # Empty)

(***************************************************************************)
(* C3: if the API key was obtained by the prompt, then by the time the     *)
(* Connect step is reached a Save carrying that key has succeeded after    *)
(* the prompt.                                                             *)
(***************************************************************************)
C3_PromptedKeySavedBeforeConnect ==
    pc = "CONNECTING" =>
        \A i \in Calls("PromptKey") :
            \E j \in Calls("Save") :
                /\ j > i
                /\ log[j].ok
                /\ log[j].rec.ApiKey = log[i].data

(***************************************************************************)
(* C4: a non-empty --api-key replaces cfg.ApiKey whatever was stored, and  *)
(* the first call after Load is a Save of the record carrying it; if that  *)
(* Save succeeds the store holds the override, and if it fails the run     *)
(* ends there with that error.                                             *)
(***************************************************************************)
C4_OverridePrecedence ==
    (loginArgs.apiKey # Empty /\ pc \notin {"LOADING", "OVERRIDING"}) =>
        /\ Len(log) >= 2
        /\ log[1].op = "Load"
        /\ log[2].op = "Save"
        /\ log[2].rec = [Loaded EXCEPT !.ApiKey = loginArgs.apiKey]
        /\ cfg.ApiKey = loginArgs.apiKey
        /\ log[2].ok => (storeOK /\ store.ApiKey = loginArgs.apiKey)
        /\ ~log[2].ok => (pc = "FAILED" /\ Len(log) = 2 /\ err = log[2].err)

C4_Witness ==
    /\ loginArgs.apiKey = S_new
    /\ pc = "ACQUIRING_KEY"
    /\ Loaded.ApiKey = S_old
    /\ log[2].ok
    /\ store.ApiKey = S_new

(***************************************************************************)
(* C5: Login turns an error into the "login failed" error only when the    *)
(* remote service answered 401; every other error of GetCurrentUser is     *)
(* returned unchanged, with an empty name.                                 *)
(***************************************************************************)
C5_OnlyUnauthorizedIsLoginFailed ==
    \A i \in Calls("GetCurrentUser") :
        ~log[i].ok =>
            /\ user = Empty
            /\ IF IsAPIError(log[i].err) /\ log[i].err.StatusCode = 401
               THEN err.type = "fmt.Errorf"
               ELSE err = log[i].err

(***************************************************************************)
(* C6: when GetCurrentUser fails with an APIError of status 401, Login     *)
(* returns no name and an error whose message contains "401" and           *)
(* "Unauthorized"; the run is FAILED and the call is the last thing it     *)
(* did: no success line, no SelectTeam, no further Save.                   *)
(***************************************************************************)
C6_AuthFailureMapping ==
    \A i \in Calls("GetCurrentUser") :
        log[i].err = APIError(401) =>
            /\ user = Empty
            /\ Contains(err.msg, S_401)
            /\ Contains(err.msg, S_Unauthorized)
            /\ pc = "FAILED"
            /\ i = Len(log)

C6_Witness ==
    /\ pc = "FAILED"
    /\ Started
    /\ log[Len(log)].op = "GetCurrentUser"
    /\ log[Len(log)].err = APIError(401)

(***************************************************************************)
(* C7 as stated: every record handed to Save has teamID and teamName both  *)
(* empty or both non-empty, whatever the store held before the run.        *)
(***************************************************************************)
C7_PairAlways ==
    \A i \in Calls("Save") : Paired(log[i].rec)

(***************************************************************************)
(* C7 as amended: if the record the run started from has teamID and        *)
(* teamName both empty or both non-empty, so has every record handed to    *)
(* Save.                                                                   *)
(***************************************************************************)
C7_PairPreserved ==
    (Started /\ Paired(Loaded)) =>
        \A i \in Calls("Save") : Paired(log[i].rec)

C7_Witness ==
    /\ pc = "DONE"
    /\ Loaded.TeamID = Empty
    /\ Loaded.Team = Empty
    /\ Calls("SelectTeam") # {}
    /\ store.TeamID = T2
    /\ store.Team = Dev

(***************************************************************************)
(* C8: a run that loaded a non-empty teamID never calls SelectTeam, and    *)
(* teamID and teamName in cfg and in the store stay what they were before  *)
(* the run; a run that follows a run that ended DONE never calls           *)
(* SelectTeam.                                                             *)
(***************************************************************************)
C8_IdempotentTeamResolution ==
    /\ (Started /\ Loaded.TeamID # Empty) =>
          /\ Calls("SelectTeam") = {}
          /\ cfg.TeamID = Loaded.TeamID
          /\ cfg.Team = Loaded.Team
          /\ storeOK
          /\ store.TeamID = Loaded.TeamID
          /\ store.Team = Loaded.Team
    /\ prev = "DONE" => Calls("SelectTeam") = {}

C8_Witness ==
    /\ prev = "DONE"
    /\ pc = "DONE"
    /\ Loaded.TeamID = T2
    /\ store.TeamID = T2
    /\ store.Team = Dev

(***************************************************************************)
(* C9: when Load fails the run goes on with the zero record; the load      *)
(* error is never what loginHandler returns, and if the run is FAILED then *)
(* a later call failed.                                                    *)
(***************************************************************************)
C9_FreshStartOnLoadFailure ==
    (Started /\ ~log[1].ok) =>
        /\ log[1].op = "Load"
        /\ Loaded = ZeroConfig
        /\ pc = "OVERRIDING" => cfg = ZeroConfig
        /\ err # log[1].err
        /\ pc = "FAILED" => \E i \in 2..Len(log) : ~log[i].ok

C9_Witness ==
    /\ Started
    /\ ~log[1].ok
    /\ pc = "DONE"
    /\ store.ApiKey = S_abc123 \o <<NL>>

(***************************************************************************)
(* C10 (Scenario A): from an empty config with no overrides, when the key  *)
(* prompt reads "abc123\n" and the token prompt reads "ghtoken\n", the     *)
(* records saved before Connect are two: first apiKey = "abc123\n" with an *)
(* empty accessToken, then the same with accessToken = "ghtoken".          *)
(***************************************************************************)
C10_ScenarioA ==
    ( /\ pc = "CONNECTING"
      /\ Loaded = ZeroConfig
      /\ loginArgs = [apiKey |-> Empty, accessToken |-> Empty]
      /\ \E i \in Calls("PromptKey") : log[i].data = S_abc123 \o <<NL>>
      /\ \E i \in Calls("PromptToken") : log[i].data = S_ghtoken \o <<NL>> )
    => SavedRecords =
          << Config(S_abc123 \o <<NL>>, Empty, Empty, Empty),
             Config(S_abc123 \o <<NL>>, S_ghtoken, Empty, Empty) >>

(***************************************************************************)
(* More reading of the log                                                 *)
(***************************************************************************)
Ended == pc \in {"DONE", "FAILED"}
Last == log[Len(log)]
NoOverrides == loginArgs = [apiKey |-> Empty, accessToken |-> Empty]
Prompts == Calls("PromptKey") \cup Calls("PromptToken")
Verified == \E i \in Calls("GetCurrentUser") : log[i].ok
\* the record of the last Save of this run that succeeded, if there is one
GoodSaves == { i \in Calls("Save") : log[i].ok }
LastGoodSave == CHOOSE i \in GoodSaves : \A j \in GoodSaves : j <= i

\* Scenario C: a fully populated stored config, no flags, identity verified
ScenarioC ==
    /\ Ended
    /\ Started
    /\ log[1].ok
    /\ Loaded.ApiKey # Empty
    /\ Loaded.AccessToken # Empty
    /\ Loaded.TeamID # Empty
    /\ NoOverrides
    /\ Verified

(***************************************************************************)
(* C11 as stated (Scenario C): with a fully populated stored config, no    *)
(* flags and a successful identity lookup, the run makes no prompt, no     *)
(* SelectTeam call and exactly one Save, prints the success line, and ends *)
(* DONE.                                                                   *)
(***************************************************************************)
C11_ScenarioCEndsDone ==
    ScenarioC =>
        /\ Prompts = {}
        /\ Calls("SelectTeam") = {}
        /\ Cardinality(Calls("Save")) = 1
        /\ Calls("Print") # {}
        /\ pc = "DONE"

(***************************************************************************)
(* C11 as amended: the same, except that the run ends DONE when that one   *)
(* Save succeeds and FAILED with the Save's error when it fails.           *)
(***************************************************************************)
C11_ScenarioC ==
    ScenarioC =>
        /\ Prompts = {}
        /\ Calls("SelectTeam") = {}
        /\ Cardinality(Calls("Save")) = 1
        /\ Last.op = "Save"
        /\ Last.rec = Loaded
        /\ Cardinality(Calls("Print")) = 1
        /\ IF Last.ok THEN pc = "DONE" ELSE (pc = "FAILED" /\ err = Last.err)

C11_Witness ==
    /\ ScenarioC
    /\ pc = "DONE"
    /\ Loaded = Config(S_old, S_tok, T1, Ops)

(***************************************************************************)
(* C12: in a run whose identity lookup succeeded and whose team resolution *)
(* did not fail, exactly one Save follows team resolution, whether or not  *)
(* SelectTeam was called; it is a Save of cfg; if it succeeds the run is   *)
(* DONE and the store equals cfg, if it fails the run is FAILED.           *)
(***************************************************************************)
C12_FinalSaveUnconditional ==
    /\ (Ended /\ Verified /\ (\A i \in Calls("SelectTeam") : log[i].ok)) =>
          /\ Last.op = "Save"
          /\ Last.rec = cfg
          /\ \A i \in Calls("Print") :
                Cardinality({ j \in Calls("Save") : j > i }) = 1
          /\ IF Last.ok
             THEN pc = "DONE" /\ storeOK /\ store = cfg
             ELSE pc = "FAILED" /\ err = Last.err
    /\ pc = "DONE" => (Verified /\ Last.op = "Save" /\ Last.ok /\ storeOK /\ store = cfg)

C12_Witness ==
    /\ pc = "DONE"
    /\ Calls("SelectTeam") = {}
    /\ Last.op = "Save"
    /\ store = cfg
    /\ store = Loaded

(***************************************************************************)
(* C13: in a FAILED run the store is exactly what the last successful Save *)
(* of the run wrote, or what the run loaded if no Save succeeded (absent   *)
(* if it was absent); what was changed only in memory is not in it.        *)
(***************************************************************************)
C13_NoRollback ==
    (pc = "FAILED" /\ Started) =>
        IF GoodSaves = {}
        THEN /\ storeOK = log[1].ok
             /\ storeOK => store = Loaded
        ELSE /\ storeOK
             /\ store = log[LastGoodSave].rec

C13_Witness ==
    /\ pc = "FAILED"
    /\ Started
    /\ GoodSaves # {}
    /\ Last.op = "Save"
    /\ ~Last.ok
    /\ Calls("SelectTeam") # {}
    /\ cfg.TeamID = T2
    /\ store.TeamID = Empty
    /\ store # Loaded

(***************************************************************************)
(* C14: the calls of a run come in the order Load, [override Save],        *)
(* [key prompt], [token prompt, Save], Connect, GetCurrentUser,            *)
(* [SelectTeam], final Save, each at most once; only the last call of a    *)
(* run can have failed (Load apart), and a run whose last call failed is   *)
(* FAILED with the error of that step.                                     *)
(***************************************************************************)
\* the place of the i-th call in that order
Stage(i) ==
    CASE log[i].op = "Load" -> 1
      [] log[i].op = "PromptKey" -> 3
      [] log[i].op = "PromptToken" -> 4
      [] log[i].op = "Connect" -> 6
      [] log[i].op = "GetCurrentUser" -> 7
      [] log[i].op = "Print" -> 8
      [] log[i].op = "SelectTeam" -> 9
      [] log[i].op = "Save" ->
            IF i > 1 /\ log[i - 1].op = "Load" THEN 2
            ELSE IF i > 1 /\ log[i - 1].op = "PromptToken" THEN 5
            ELSE 10

VerifiedBefore(i) ==
    \E j \in Calls("GetCurrentUser") :
        j < i /\ log[j].ok /\ log[j].rec.ApiKey # Empty

C15_VerificationBeforeTeam ==
    /\ \A i \in Calls("SelectTeam") : VerifiedBefore(i)
    /\ (Started /\ (cfg.TeamID # Loaded.TeamID \/ cfg.Team # Loaded.Team)) =>
          VerifiedBefore(Len(log))
    /\ pc \in {"RESOLVING_TEAM", "PERSISTING", "DONE"} =>
          /\ cfg.ApiKey # Empty
          /\ \E j \in Calls("GetCurrentUser") : log[j].ok /\ log[j].rec.ApiKey = cfg.ApiKey

C15_Witness ==
    /\ pc = "PERSISTING"
    /\ Calls("PromptKey") # {}
    /\ Calls("SelectTeam") # {}
    /\ cfg.TeamID = T1
    /\ Loaded.TeamID = Empty

(***************************************************************************)
(* C16: before Connect a Save happens at two points only: as the call      *)
(* right after Load when --api-key is non-empty, and right after a token   *)
(* prompt that read a line; both points do save.  A run makes at most      *)
(* three Saves, and with no --api-key and a stored accessToken none        *)
(* before Connect.                                                         *)
(***************************************************************************)
BeforeConnect(i) == \A j \in Calls("Connect") : i < j

C17_TokenTrimmedKeyVerbatim ==
    /\ \A i \in Calls("PromptToken") :
          log[i].ok =>
              /\ log[i].data = log[i].rec.AccessToken \o <<NL>>
              /\ i < Len(log)
              /\ log[i + 1].op = "Save"
              /\ log[i + 1].rec = log[i].rec
              /\ log[i + 1].rec.ApiKey = log[i - 1].rec.ApiKey
              /\ BeforeConnect(i + 1)
    /\ \A i \in Calls("PromptKey") :
          log[i].ok =>
              /\ log[i].rec.ApiKey = log[i].data
              /\ log[i].data[Len(log[i].data)] = NL

C17_Witness ==
    /\ pc = "CONNECTING"
    /\ cfg.ApiKey = S_abc123 \o <<NL>>
    /\ cfg.AccessToken = S_ghtoken
    /\ store = cfg
    /\ Calls("PromptKey") # {}
    /\ Calls("PromptToken") # {}

(***************************************************************************)
(* C19: the success line is printed once if GetCurrentUser succeeded and   *)
(* not at all otherwise; it names the user returned, and it comes right    *)
(* after that call, before any SelectTeam and before the final Save.       *)
(***************************************************************************)
C19_SuccessLine ==
    /\ Cardinality(Calls("Print")) = (IF Verified THEN 1 ELSE 0)
    /\ \A i \in Calls("Print") :
          /\ i > 1
          /\ log[i - 1].op = "GetCurrentUser"
          /\ log[i - 1].ok
          /\ log[i].data = S_SuccessPrefix \o log[i - 1].data \o <<NL>>
          /\ \A j \in Calls("SelectTeam") : j > i
          /\ \A j \in Calls("Save") : j > i \/ BeforeConnect(j)

\* a run that printed the success line and yet ended FAILED, with no team
\* set and nothing of this run in the store
C19_Witness ==
    /\ pc = "FAILED"
    /\ Calls("Print") # {}
    /\ cfg.TeamID = Empty
    /\ GoodSaves = {}
    /\ Last.op = "SelectTeam"

====
